---- MODULE Spec2Model ----
(***************************************************************************)
(* Credential lifecycle and tool dispatch of the AutoClerk backend.        *)
(*                                                                         *)
(*   agent/tools/google_auth.py     token.json: load, refresh, save        *)
(*   main.py                        /oauth/callback                        *)
(*   agent/tools/gmail/gmail_tools.py, agent/tools/gsheets/gsheets_tools.py *)
(*                                  the nine tools' _run                   *)
(*                                                                         *)
(* The state is the token file, the clock, the number of access tokens the *)
(* authorization server has issued so far, and a record of the last call   *)
(* (what it was given, what it did, in which order, and what it returned). *)
(* Every handler is one action; the claims are invariants over the record  *)
(* of the last call.  Where two calls overlap, the calls in progress       *)
(* (running), the rows of the spreadsheet they work on (sheet) and the     *)
(* order of their steps (trace) are state too, and a handler is one action *)
(* per external step.                                                      *)
(***************************************************************************)
EXTENDS Integers, Sequences, FiniteSets, TLC

VARIABLES store, now, issued, call, sheet, running, trace, services

vars == <<store, now, issued, call, sheet, running, trace, services>>

(***************************************************************************)
(* Bounds of the model.                                                    *)
(***************************************************************************)
\* the clock runs 0..MaxTime; an access token lives one tick of it
MaxTime == 1
\* access tokens the authorization server issues in one behaviour
MaxIssued == 2
\* entries the first read or list call of a tool returns at most
MaxMessages == 1
\* parts (nodes of the MIME tree) of a message payload at most
MaxParts == 4
\* rows a sheet holds before the appends start, at most
MaxRows == 1
\* the max_results a caller of search_gmail or list_gmail asks for, at most
MaxResults == 2
\* column headers given to create_google_sheet, at most
MaxHeaders == 2
\* cells in a row that read_google_sheet gets back, at most
MaxCols == 2

(***************************************************************************)
(* Scopes: google_auth.py lines 11-16.  A scope is named by the last       *)
(* segment of its URL.                                                     *)
(***************************************************************************)
DOCS_SCOPES == {"documents", "drive.readonly"}

GMAIL_SCOPES == {"gmail.send", "gmail.readonly"}

SHEETS_SCOPES == {"spreadsheets", "drive.readonly"}

ALL_SCOPES == DOCS_SCOPES \cup GMAIL_SCOPES \cup SHEETS_SCOPES

\* the scope lists the program's callers pass to get_stored_credentials
RequestedScopeSets == {GMAIL_SCOPES, SHEETS_SCOPES, ALL_SCOPES}

(***************************************************************************)
(* Credentials (google.oauth2.credentials.Credentials) in memory.  Tokens  *)
(* are numbered in the order the authorization server issues them; 0 is    *)
(* None.                                                                   *)
(***************************************************************************)
NoCreds == [token |-> 0, refresh_token |-> 0, expiry |-> 0, scopes |-> {}]

(***************************************************************************)
(* token.json.  kind is "missing" (no file), "unreadable" (open or read    *)
(* raises), "corrupt" (empty, truncated or otherwise not the JSON of a     *)
(* bundle) or "json" (the JSON of a bundle).  has_refresh_key tells        *)
(* whether the JSON object has a "refresh_token" key at all.               *)
(***************************************************************************)
NoFile(k) ==
    [kind |-> k, token |-> 0, has_refresh_key |-> FALSE, refresh_token |-> 0,
     expiry |-> 0, scopes |-> {}]

\* creds.to_json() (google_auth.py line 71): the library serialises token,
\* refresh_token, scopes and expiry and then drops every entry whose value
\* is None, so a bundle without a refresh token is written without the
\* "refresh_token" key.
ToJson(creds) ==
    [kind |-> "json", token |-> creds.token,
     has_refresh_key |-> creds.refresh_token # 0,
     refresh_token |-> creds.refresh_token,
     expiry |-> creds.expiry, scopes |-> creds.scopes]

\* Credentials.from_authorized_user_info(creds_data, scopes) (line 44):
\* raises ValueError when the "refresh_token" key is missing from the JSON
\* object; otherwise builds the credentials from the stored token material
\* and, since a scopes argument is given, takes THAT as the credentials'
\* scopes.  The stored scopes are read only when the argument is None,
\* which no caller passes.
FromAuthorizedUserInfo(file, scopes) ==
    IF ~file.has_refresh_key
    THEN [ok |-> FALSE, creds |-> NoCreds]
    ELSE [ok |-> TRUE,
          creds |-> [token |-> file.token, refresh_token |-> file.refresh_token,
                     expiry |-> file.expiry, scopes |-> scopes]]

\* creds.expired and creds.valid (lines 47, 51)
Expired(creds, t) == t >= creds.expiry

Valid(creds, t) == creds.token # 0 /\ ~Expired(creds, t)

\* creds.refresh(Request()) when the token endpoint answers (line 53): a new
\* access token and expiry; refresh token and scopes stay.
Refreshed(creds, t, tok) ==
    [creds EXCEPT !.token = tok, !.expiry = t + 1]

(***************************************************************************)
(* save_credentials (lines 67-71).  w is what the file system does:        *)
(*   "ok"           the file now holds the JSON                            *)
(*   "open_failed"  open(..., 'w') raises, the file is as it was           *)
(*   "write_failed" open truncated the file, write raises                  *)
(***************************************************************************)
WriteResults == {"ok", "open_failed", "write_failed"}

\* SaveCredentials keeping the refresh token of the bundle it replaces when
\* the new one has none
SaveCredentials_Merging(file, creds, w) ==
    CASE w = "ok" ->
            [raised |-> FALSE,
             file |-> IF creds.refresh_token = 0 /\ file.kind = "json"
                      THEN [ToJson(creds) EXCEPT
                                !.has_refresh_key = file.has_refresh_key,
                                !.refresh_token = file.refresh_token]
                      ELSE ToJson(creds)]
      [] w = "open_failed"  -> [raised |-> TRUE,  file |-> file]
      [] w = "write_failed" -> [raised |-> TRUE,  file |-> NoFile("corrupt")]

SaveCredentials(file, creds, w) ==
    CASE w = "ok"           -> [raised |-> FALSE, file |-> ToJson(creds)]
      [] w = "open_failed"  -> [raised |-> TRUE,  file |-> file]
      [] w = "write_failed" -> [raised |-> TRUE,  file |-> NoFile("corrupt")]

(***************************************************************************)
(* get_stored_credentials (lines 26-65).  A result is [kind, creds] with   *)
(* kind "creds" (a Credentials object is returned), "none" (None is        *)
(* returned) or "raised" (an exception leaves the function).  An outcome   *)
(* is the result, the file afterwards and the events in program order:     *)
(*   "read"            the file was opened and parsed as JSON              *)
(*   "read_failed"     open or json.load raised                            *)
(*   "parse_failed"    from_authorized_user_info raised                    *)
(*   "refresh_ok"      a refresh exchange was made and answered            *)
(*   "refresh_failed"  a refresh exchange was made and raised              *)
(*   "write_ok", "write_failed"   save_credentials was called              *)
(***************************************************************************)
Result(k, creds) == [kind |-> k, creds |-> creds]

Outcome(ret, file, events) == [ret |-> ret, file |-> file, events |-> events]

\* ShouldRefresh without the test of creds.refresh_token
ShouldRefresh_IgnoringRefreshToken(creds, t) == Expired(creds, t)

\* line 51: if creds and creds.expired and creds.refresh_token
ShouldRefresh(creds, t) == Expired(creds, t) /\ creds.refresh_token # 0

\* TryRefresh returning the refreshed credentials without saving them
TryRefresh_WithoutSave(file, creds, t, tok, refreshOk, w) ==
    IF ~refreshOk
    THEN Outcome(Result("raised", NoCreds), file, <<"refresh_failed">>)
    ELSE Outcome(Result("creds", Refreshed(creds, t, tok)), file, <<"refresh_ok">>)

\* TryRefresh swallowing a failed refresh and returning the stale credentials
TryRefresh_StaleOnFailure(file, creds, t, tok, refreshOk, w) ==
    IF ~refreshOk
    THEN Outcome(Result("creds", creds), file, <<"refresh_failed">>)
    ELSE LET fresh == Refreshed(creds, t, tok)
             saved == SaveCredentials(file, fresh, w)
         IN  IF saved.raised
             THEN Outcome(Result("raised", NoCreds), saved.file,
                          <<"refresh_ok", "write_failed">>)
             ELSE Outcome(Result("creds", fresh), saved.file,
                          <<"refresh_ok", "write_ok">>)

\* lines 53-56, the body of the inner try: refresh, save, return creds.
\* refreshOk is whether the token endpoint answers, tok the access token it
\* issues, w what the file system does on the write.
TryRefresh(file, creds, t, tok, refreshOk, w) ==
    IF ~refreshOk
    THEN Outcome(Result("raised", NoCreds), file, <<"refresh_failed">>)
    ELSE LET fresh == Refreshed(creds, t, tok)
             saved == SaveCredentials(file, fresh, w)
         IN  IF saved.raised
             THEN Outcome(Result("raised", NoCreds), saved.file,
                          <<"refresh_ok", "write_failed">>)
             ELSE Outcome(Result("creds", fresh), saved.file,
                          <<"refresh_ok", "write_ok">>)

\* lines 57-59: except Exception: print, return None
InnerExcept(out) ==
    IF out.ret.kind = "raised"
    THEN Outcome(Result("none", NoCreds), out.file, out.events)
    ELSE out

\* lines 42-59, the body of the outer try
TryLoad(file, scopes, t, tok, refreshOk, w) ==
    IF file.kind \in {"unreadable", "corrupt"}
    THEN Outcome(Result("raised", NoCreds), file, <<"read_failed">>)
    ELSE LET parsed == FromAuthorizedUserInfo(file, scopes)
             creds  == parsed.creds
         IN  IF ~parsed.ok
             THEN Outcome(Result("raised", NoCreds), file, <<"read", "parse_failed">>)
             ELSE IF Valid(creds, t)
             THEN Outcome(Result("creds", creds), file, <<"read">>)
             ELSE IF ShouldRefresh(creds, t)
             THEN LET r == InnerExcept(TryRefresh(file, creds, t, tok, refreshOk, w))
                  IN  Outcome(r.ret, r.file, <<"read">> \o r.events)
             ELSE Outcome(Result("none", NoCreds), file, <<"read">>)

\* OuterExcept catching nothing
OuterExcept_Propagating(out) == out

\* lines 61-63: except Exception: print, return None
OuterExcept(out) ==
    IF out.ret.kind = "raised"
    THEN Outcome(Result("none", NoCreds), out.file, out.events)
    ELSE out

GetStoredCredentials(file, scopes, t, tok, refreshOk, w) ==
    IF file.kind = "missing"
    THEN Outcome(Result("none", NoCreds), file, <<>>)
    ELSE OuterExcept(TryLoad(file, scopes, t, tok, refreshOk, w))

\* authenticate_google_api (lines 94-117): the stored credentials or None;
\* an exception out of get_stored_credentials is caught and None returned.
AuthenticateGoogleApi(out) ==
    IF out.ret.kind = "raised"
    THEN Outcome(Result("none", NoCreds), out.file, out.events)
    ELSE out

\* lines 129-130: scopes = None stands for ALL_SCOPES.  None is written as
\* a scope list no caller can pass.
NoneScopes == {"None"}

DefaultScopes(scopes) == IF scopes = NoneScopes THEN ALL_SCOPES ELSE scopes

\* IsAuthenticated looking for a token file instead of usable credentials
IsAuthenticated_WhenFilePresent(out) ==
    Outcome(Result(IF out.file.kind = "json" THEN "true" ELSE "false", NoCreds),
            out.file, out.events)

\* is_authenticated (lines 119-133): creds is not None; nothing is caught.
IsAuthenticated(out) ==
    Outcome(Result(CASE out.ret.kind = "creds"  -> "true"
                     [] out.ret.kind = "none"   -> "false"
                     [] out.ret.kind = "raised" -> "raised", NoCreds),
            out.file, out.events)

(***************************************************************************)
(* GET /oauth/callback (main.py lines 289-336).  A response is [kind,      *)
(* status]: "success_page" or "error_page" (the handler returned a page,   *)
(* which the framework sends with status 200) or "http_error" (an          *)
(* HTTPException left the handler and the framework answers with its       *)
(* status).  Events: "exchange_ok" / "exchange_failed" for flow.fetch_token *)
(* and "write_ok" / "write_failed" for save_credentials.                   *)
(***************************************************************************)
Grants == {"ok", "invalid_grant", "redirect_uri_mismatch"}

\* flow.credentials after a successful flow.fetch_token (lines 301-304): the
\* token the server issued, a refresh token only if the server sent one,
\* and the scopes the flow was created with.
FlowCredentials(t, tok, withRefresh) ==
    [token |-> tok, refresh_token |-> IF withRefresh THEN tok ELSE 0,
     expiry |-> t + 1, scopes |-> ALL_SCOPES]

Response(k, status, file, events) ==
    [kind |-> k, status |-> status, file |-> file, events |-> events]

\* lines 295-324, the body of the try
CallbackBody(file, hasCode, grant, t, tok, withRefresh, w) ==
    IF ~hasCode
    THEN Response("raised", 400, file, <<>>)
    ELSE IF grant # "ok"
    THEN Response("raised", 500, file, <<"exchange_failed">>)
    ELSE LET saved == SaveCredentials(file, FlowCredentials(t, tok, withRefresh), w)
         IN  IF saved.raised
             THEN Response("raised", 500, saved.file, <<"exchange_ok", "write_failed">>)
             ELSE Response("success_page", 200, saved.file, <<"exchange_ok", "write_ok">>)

\* CallbackExcept removing the token file when the callback fails
CallbackExcept_Wiping(r) ==
    IF r.kind = "raised"
    THEN Response("error_page", 200, NoFile("missing"), r.events)
    ELSE r

\* lines 326-336: except Exception as e: return the error page.  HTTPException
\* is an Exception, so the 400 raised for a missing code is caught here too.
CallbackExcept(r) ==
    IF r.kind = "raised"
    THEN Response("error_page", 200, r.file, r.events)
    ELSE r

OAuthCallbackResponse(file, hasCode, grant, t, tok, withRefresh, w) ==
    CallbackExcept(CallbackBody(file, hasCode, grant, t, tok, withRefresh, w))

(***************************************************************************)
(* POST /agent (main.py lines 239-265).  AgentManager lives in the agent   *)
(* package; here it is what the handler sees of it: the constructor and    *)
(* run() each return or raise, and run() returns a text or an empty one.   *)
(* The tool invocations an agent makes while it runs are the invocations   *)
(* of the tools modelled below.  Events: those of the load made by         *)
(* is_authenticated, then "agent_created" for AgentManager() and           *)
(* "agent_run" for agent_manager.run(prompt).                              *)
(***************************************************************************)
AgentRuns == {"text", "empty", "construct_raised", "run_raised"}

AuthUrl == "http://localhost:8000/oauth/login"

ChatResponse(k, status, hint, file, events) ==
    [kind |-> k, status |-> status, hint |-> hint, file |-> file, events |-> events]

\* lines 251-262, what follows the authentication check
RunAgent(auth, agent) ==
    CASE agent = "construct_raised" ->
            ChatResponse("raised", 500, "", auth.file, auth.events \o <<"agent_created">>)
      [] agent = "run_raised" ->
            ChatResponse("raised", 500, "", auth.file,
                         auth.events \o <<"agent_created", "agent_run">>)
      [] agent = "empty" ->
            ChatResponse("completed", 200, "", auth.file,
                         auth.events \o <<"agent_created", "agent_run">>)
      [] agent = "text" ->
            ChatResponse("response", 200, "", auth.file,
                         auth.events \o <<"agent_created", "agent_run">>)

\* AgentChatBody running the agent without asking is_authenticated
AgentChatBody_WithoutCheck(auth, agent) == RunAgent(auth, agent)

\* lines 244-262, the body of the try; auth is the outcome of is_authenticated()
AgentChatBody(auth, agent) ==
    IF auth.ret.kind = "raised"
    THEN ChatResponse("raised", 500, "", auth.file, auth.events)
    ELSE IF auth.ret.kind = "false"
    THEN ChatResponse("requires_auth", 200, AuthUrl, auth.file, auth.events)
    ELSE RunAgent(auth, agent)

\* lines 263-264: except Exception as e: raise HTTPException(status_code=500)
AgentChat(auth, agent) ==
    LET r == AgentChatBody(auth, agent)
    IN  IF r.kind = "raised" THEN [r EXCEPT !.kind = "http_error", !.status = 500] ELSE r

(***************************************************************************)
(* The tools (gmail_tools.py, gsheets_tools.py).                           *)
(***************************************************************************)
GmailTools == {"send_gmail", "read_gmail", "search_gmail", "list_gmail"}

SheetsTools == {"create_google_sheet", "read_google_sheet", "update_google_sheet",
                "add_row_google_sheet"}

DriveTools == {"search_google_sheets"}

Tools == GmailTools \cup SheetsTools \cup DriveTools

\* the scopes each get_*_service asks for
ToolScopes(tool) == IF tool \in GmailTools THEN GMAIL_SCOPES ELSE SHEETS_SCOPES

\* get_gmail_service / get_sheets_service / get_drive_service: a handle when
\* authenticate_google_api returned credentials and build() did not raise,
\* else None.
GetService(auth, buildOk) == auth.ret.kind = "creds" /\ buildOk

\* if <service> is None: return the message
ServiceIsNone(service) == ~service

\* A handle is [built, creds]: the credentials build() was given.  None is
\* the handle that was not built.
NoService == [built |-> FALSE, creds |-> NoCreds]

\* what get_*_service returns
Handle(auth, buildOk) ==
    IF GetService(auth, buildOk) THEN [built |-> TRUE, creds |-> auth.ret.creds]
    ELSE NoService

\* the module-level variables gmail_service (gmail_tools.py line 21),
\* sheets_service and drive_service (gsheets_tools.py lines 13-14)
ServiceVariables == {"gmail_service", "sheets_service", "drive_service"}

ServiceVariable(tool) ==
    IF tool \in GmailTools THEN "gmail_service"
    ELSE IF tool \in DriveTools THEN "drive_service" ELSE "sheets_service"

NoServices == [v \in ServiceVariables |-> NoService]

\* ModuleService with the assignment in _run reaching the module's variable
ModuleService_Global(module_service, handle) == handle

\* "gmail_service = get_gmail_service()" inside _run (line 117, and the like
\* in every tool): no _run declares the name global, so the assignment
\* binds a local and the module's variable keeps its value.
ModuleService(module_service, handle) == module_service

\* GuardedTools with one tool's test left out
GuardedTools_ButOne == Tools \ {"add_row_google_sheet"}

\* The tools whose _run tests the handle for None before using it:
\* gmail_tools.py lines 118, 159, 213, 283; gsheets_tools.py lines 73, 126,
\* 202, 260, 313.
GuardedTools ==
    {"send_gmail", "read_gmail", "search_gmail", "list_gmail",
     "create_google_sheet", "read_google_sheet", "update_google_sheet",
     "add_row_google_sheet", "search_google_sheets"}

AuthHint == "/oauth/login"

\* The external calls a tool makes once it has a handle, in program order,
\* when none of them fails.  n is the number of entries the first read or
\* list call returns; headers is whether a non-empty header list was given.
Repeat(x, n) == [i \in 1..n |-> x]

ApiPlan(tool, n, headers) ==
    CASE tool = "send_gmail"   -> <<"gmail.messages.send">>
      [] tool = "read_gmail"   -> <<"gmail.messages.get">>
      [] tool = "search_gmail" -> <<"gmail.messages.list">> \o Repeat("gmail.messages.get", n)
      [] tool = "list_gmail"   -> <<"gmail.messages.list">> \o Repeat("gmail.messages.get", n)
      [] tool = "create_google_sheet" ->
            <<"sheets.create">> \o (IF headers THEN <<"sheets.values.update">> ELSE <<>>)
      [] tool = "read_google_sheet" ->
            <<"sheets.values.get">> \o (IF n > 0 THEN <<"sheets.get">> ELSE <<>>)
      [] tool = "update_google_sheet"  -> <<"sheets.values.update">>
      [] tool = "add_row_google_sheet" -> <<"sheets.values.get", "sheets.values.update">>
      [] tool = "search_google_sheets" -> <<"drive.files.list">>

ApiCallNames ==
    {"gmail.messages.send", "gmail.messages.get", "gmail.messages.list",
     "sheets.create", "sheets.get", "sheets.values.get", "sheets.values.update",
     "drive.files.list"}

IsApiCall(e) == e \in ApiCallNames

ApiCalls(events) == SelectSeq(events, IsApiCall)

\* _run of a tool.  auth is the outcome of authenticate_google_api; failAt
\* is the position of the external call that raises (0: none does), failKind
\* whether it raises HttpError ("http") or something else ("other").  The
\* outcome is [kind, hint, events]; kind is "not_authenticated", "success",
\* "api_error" (except HttpError), "unexpected_error" (except Exception) or
\* "raised".
ToolOutcome(k, hint, events) == [kind |-> k, hint |-> hint, events |-> events]

\* Caught with only HttpError handled: anything else leaves _run
Caught_OnlyHttpError(failKind) ==
    IF failKind = "http" THEN "api_error" ELSE "raised"

\* the except clauses that end every _run (send_gmail: gmail_tools.py lines
\* 136-143): HttpError gives "An error occurred while ...", any other
\* exception "An unexpected error occurred: ..."; both are returned.
Caught(failKind) ==
    IF failKind = "http" THEN "api_error" ELSE "unexpected_error"

Run(tool, auth, buildOk, n, headers, failAt, failKind) ==
    LET plan == ApiPlan(tool, n, headers)
    IN  IF ServiceIsNone(GetService(auth, buildOk)) /\ tool \in GuardedTools
        THEN ToolOutcome("not_authenticated", AuthHint, auth.events)
        ELSE IF ServiceIsNone(GetService(auth, buildOk))
        THEN \* the first use of the None handle raises AttributeError
             ToolOutcome(Caught("other"), "", auth.events)
        ELSE IF failAt = 0
        THEN ToolOutcome("success", "", auth.events \o plan)
        ELSE ToolOutcome(Caught(failKind), "", auth.events \o SubSeq(plan, 1, failAt))

(***************************************************************************)
(* The state machine.                                                      *)
(***************************************************************************)
\* The token file the program finds at start: none, one it cannot read or
\* parse, or the JSON of a bundle.  A bundle on file has a refresh token, or
\* no "refresh_token" key (save_credentials after a grant that carried
\* none), or an explicit null (a file provisioned by other means).  Its
\* scopes are those of the credentials last saved: ALL_SCOPES after a
\* callback, the scopes of the caller after a refresh.
InitFiles ==
    {NoFile("missing"), NoFile("unreadable"), NoFile("corrupt")}
    \cup {[kind |-> "json", token |-> 1, has_refresh_key |-> h.key,
           refresh_token |-> h.val, expiry |-> e, scopes |-> s] :
            h \in {[key |-> FALSE, val |-> 0], [key |-> TRUE, val |-> 0],
                   [key |-> TRUE, val |-> 1]},
            e \in 0..1, s \in RequestedScopeSets}

Call(op, tool, scopes, arg, pre, post, at, events, ret, status, hint) ==
    [op |-> op, tool |-> tool, scopes |-> scopes, arg |-> arg, pre |-> pre,
     post |-> post, at |-> at, events |-> events, ret |-> ret,
     status |-> status, hint |-> hint]

\* no call is being followed step by step
Idle ==
    /\ sheet = <<>>
    /\ running = <<>>
    /\ trace = <<>>
    /\ services = NoServices

Init ==
    /\ store \in InitFiles
    /\ now = 0
    /\ issued = 1
    /\ call = Call("init", "", {}, "", store, store, 0, <<>>, Result("", NoCreds), 0, "")
    /\ Idle

Issued(events) ==
    IF \E i \in 1..Len(events) : events[i] \in {"refresh_ok", "exchange_ok"}
    THEN issued + 1 ELSE issued

\* time passes
Tick ==
    /\ now < MaxTime
    /\ now' = now + 1
    /\ UNCHANGED <<store, issued, call, sheet, running, trace, services>>

\* What the world outside does during one load: whether the token endpoint
\* answers a refresh exchange and what the file system does on the write
\* that follows.  A write is attempted only after a refresh that succeeded.
Worlds ==
    {[refreshOk |-> FALSE, w |-> "ok"]}
    \cup {[refreshOk |-> TRUE, w |-> x] : x \in WriteResults}

\* a call of get_stored_credentials(scopes)
Load ==
    \E scopes \in RequestedScopeSets, e \in Worlds :
        /\ e.refreshOk => issued < MaxIssued
        /\ \E out \in {GetStoredCredentials(store, scopes, now, issued + 1,
                                              e.refreshOk, e.w)} :
               /\ store' = out.file
               /\ issued' = Issued(out.events)
               /\ call' = Call("load", "", scopes, "", store, out.file, now,
                               out.events, out.ret, 0, "")
        /\ UNCHANGED <<now, sheet, running, trace, services>>

\* a call of is_authenticated(scopes); scopes = None stands for ALL_SCOPES
CheckAuthenticated ==
    \E scopes \in RequestedScopeSets \cup {NoneScopes}, e \in Worlds :
        /\ e.refreshOk => issued < MaxIssued
        /\ \E out \in {IsAuthenticated(
                             GetStoredCredentials(store, DefaultScopes(scopes), now,
                                                  issued + 1, e.refreshOk, e.w))} :
               /\ store' = out.file
               /\ issued' = Issued(out.events)
               /\ call' = Call("is_authenticated", "", DefaultScopes(scopes),
                               IF scopes = NoneScopes THEN "None" ELSE "given",
                               store, out.file, now, out.events, out.ret, 0, "")
        /\ UNCHANGED <<now, sheet, running, trace, services>>

\* What the authorization server and the file system do during one callback.
CallbackWorlds ==
    {[grant |-> g, withRefresh |-> FALSE, w |-> "ok"] : g \in Grants \ {"ok"}}
    \cup {[grant |-> "ok", withRefresh |-> r, w |-> x] : r \in BOOLEAN, x \in WriteResults}

\* a request GET /oauth/callback
OAuthCallback ==
    \E hasCode \in BOOLEAN, e \in CallbackWorlds :
        /\ (hasCode /\ e.grant = "ok") => issued < MaxIssued
        /\ \E r \in {OAuthCallbackResponse(store, hasCode, e.grant, now, issued + 1,
                                              e.withRefresh, e.w)} :
               /\ store' = r.file
               /\ issued' = Issued(r.events)
               /\ call' = Call("callback", "", ALL_SCOPES,
                               IF hasCode THEN e.grant ELSE "no_code", store, r.file, now,
                               r.events,
                               Result(r.kind,
                                      IF r.kind = "success_page"
                                      THEN FlowCredentials(now, issued + 1, e.withRefresh)
                                      ELSE NoCreds),
                               r.status, "")
        /\ UNCHANGED <<now, sheet, running, trace, services>>

\* a request POST /agent
PostAgent ==
    \E e \in Worlds :
        /\ e.refreshOk => issued < MaxIssued
        /\ \E auth \in {IsAuthenticated(
                            GetStoredCredentials(store, DefaultScopes(NoneScopes), now,
                                                 issued + 1, e.refreshOk, e.w))} :
             \E agent \in IF auth.ret.kind = "true" THEN AgentRuns ELSE {"text"} :
               \E r \in {AgentChat(auth, agent)} :
                 /\ store' = r.file
                 /\ issued' = Issued(r.events)
                 /\ call' = Call("agent", "", DefaultScopes(NoneScopes), agent, store,
                                 r.file, now, r.events, Result(r.kind, NoCreds),
                                 r.status, r.hint)
        /\ UNCHANGED <<now, sheet, running, trace, services>>

\* What the Google APIs do during one tool invocation: whether build()
\* works, how many entries the first read or list returns (for the tools
\* whose further calls depend on it), whether headers were given (create),
\* and which external call fails, if any, and how.
Counts(tool) ==
    IF tool \in {"search_gmail", "list_gmail", "read_google_sheet"}
    THEN 0..MaxMessages ELSE {0}

HeaderChoices(tool) == IF tool = "create_google_sheet" THEN BOOLEAN ELSE {FALSE}

NoHandle ==
    [buildOk |-> FALSE, n |-> 0, headers |-> FALSE, failAt |-> 0, failKind |-> "http"]

ToolWorlds(tool) ==
    {NoHandle}
    \cup {[buildOk |-> TRUE, n |-> n, headers |-> h, failAt |-> 0, failKind |-> "http"] :
            n \in Counts(tool), h \in HeaderChoices(tool)}
    \cup UNION {{[buildOk |-> TRUE, n |-> n, headers |-> h, failAt |-> f, failKind |-> k] :
                    f \in 1..Len(ApiPlan(tool, n, h)), k \in {"http", "other"}} :
                n \in Counts(tool), h \in HeaderChoices(tool)}

\* an invocation of a tool
RunTool ==
    \E tool \in Tools, e \in Worlds :
        /\ e.refreshOk => issued < MaxIssued
        /\ \E auth \in {AuthenticateGoogleApi(
                            GetStoredCredentials(store, ToolScopes(tool), now, issued + 1,
                                                 e.refreshOk, e.w))} :
             \E x \in IF auth.ret.kind = "creds" THEN ToolWorlds(tool) ELSE {NoHandle} :
               \E out \in {Run(tool, auth, x.buildOk, x.n, x.headers, x.failAt, x.failKind)} :
                 /\ store' = auth.file
                 /\ issued' = Issued(auth.events)
                 /\ call' = Call("tool", tool, ToolScopes(tool),
                                 IF x.failAt = 0 THEN "" ELSE x.failKind,
                                 store, auth.file, now,
                                 out.events, Result(out.kind, auth.ret.creds), 0, out.hint)
                 /\ services' = [services EXCEPT ![ServiceVariable(tool)] =
                                     ModuleService(@, Handle(auth, x.buildOk))]
        /\ UNCHANGED <<now, sheet, running, trace>>

Next == Tick \/ Load \/ CheckAuthenticated \/ OAuthCallback \/ PostAgent \/ RunTool

Spec == Init /\ [][Next]_vars

(***************************************************************************)
(* The dispatcher.  Each tool declares its arguments in an args_schema     *)
(* class (gmail_tools.py lines 35-55, gsheets_tools.py lines 39-61): a     *)
(* field declared with Field(description=...) alone is required, one with  *)
(* a default (None, False, "full", 10, True) is optional.  An argument is  *)
(* "absent", "ok" (present, of a type the schema accepts) or "bad"         *)
(* (present, of a type that cannot be coerced).                            *)
(***************************************************************************)
Fields(tool) ==
    CASE tool = "send_gmail"   -> {"to", "subject", "body", "cc", "bcc", "html"}
      [] tool = "read_gmail"   -> {"email_id", "format"}
      [] tool = "search_gmail" -> {"query", "max_results", "include_spam_trash"}
      [] tool = "list_gmail"   -> {"max_results", "label_ids", "query"}
      [] tool = "create_google_sheet"  -> {"title", "headers"}
      [] tool = "read_google_sheet"    -> {"spreadsheet_id", "range", "include_headers"}
      [] tool = "update_google_sheet"  -> {"spreadsheet_id", "range", "values", "raw_input"}
      [] tool = "add_row_google_sheet" -> {"spreadsheet_id", "sheet_name", "values"}
      [] tool = "search_google_sheets" -> {"query", "max_results"}

RequiredFields(tool) ==
    CASE tool = "send_gmail"   -> {"to", "subject", "body"}
      [] tool = "read_gmail"   -> {"email_id"}
      [] tool = "search_gmail" -> {"query"}
      [] tool = "list_gmail"   -> {}
      [] tool = "create_google_sheet"  -> {"title"}
      [] tool = "read_google_sheet"    -> {"spreadsheet_id", "range"}
      [] tool = "update_google_sheet"  -> {"spreadsheet_id", "range", "values"}
      [] tool = "add_row_google_sheet" -> {"spreadsheet_id", "sheet_name", "values"}
      [] tool = "search_google_sheets" -> {"query"}

ArgStates == {"absent", "ok", "bad"}

\* the well-formed call with no optional argument, the one with every
\* argument, and every argument set with one argument missing or of a bad
\* type
Baseline(tool) ==
    [f \in Fields(tool) |-> IF f \in RequiredFields(tool) THEN "ok" ELSE "absent"]

ArgSets(tool) ==
    {Baseline(tool), [f \in Fields(tool) |-> "ok"]}
    \cup {[Baseline(tool) EXCEPT ![f] = v] :
            f \in Fields(tool), v \in ArgStates \ {"ok"}}

\* Validate checking the types of the arguments given, not their presence
Validate_TypesOnly(tool, args) ==
    \A f \in Fields(tool) : args[f] # "bad"

\* validation of an argument set against the tool's args_schema
Validate(tool, args) ==
    \A f \in Fields(tool) :
        /\ args[f] # "bad"
        /\ f \in RequiredFields(tool) => args[f] # "absent"

\* invoke(tool_name, arguments): look the tool up, validate the arguments,
\* then run the tool.  The outcome is [kind, hint, events, file, creds].
\* e is what the world does during the load, x during the tool's calls.
Dispatched(k, hint, events, file, creds) ==
    [kind |-> k, hint |-> hint, events |-> events, file |-> file, creds |-> creds]

Dispatch(name, args, file, t, tok, e, x) ==
    IF name \notin Tools
    THEN Dispatched("unknown_tool", "", <<>>, file, NoCreds)
    ELSE IF ~Validate(name, args)
    THEN Dispatched("invalid_arguments", "", <<>>, file, NoCreds)
    ELSE LET auth == AuthenticateGoogleApi(
                         GetStoredCredentials(file, ToolScopes(name), t, tok,
                                              e.refreshOk, e.w))
             y    == IF auth.ret.kind = "creds" THEN x ELSE NoHandle
             out  == Run(name, auth, y.buildOk, y.n, y.headers, y.failAt, y.failKind)
         IN  Dispatched(out.kind, out.hint, out.events, auth.file, auth.ret.creds)

\* the tool worlds that fit an argument set: headers were given or not
WorldsFor(name, args) ==
    IF name \in Tools /\ Validate(name, args)
    THEN {x \in ToolWorlds(name) :
            x.headers = (name = "create_google_sheet" /\ args["headers"] = "ok")}
    ELSE {NoHandle}

\* an invocation of a tool by name through the dispatcher
Invoke ==
    \E name \in Tools \cup {"no_such_tool"} :
      \E args \in IF name \in Tools THEN ArgSets(name) ELSE {<<>>} :
        \E e \in IF name \in Tools /\ Validate(name, args)
                 THEN Worlds ELSE {[refreshOk |-> FALSE, w |-> "ok"]} :
          \E x \in WorldsFor(name, args) :
            /\ e.refreshOk => issued < MaxIssued
            /\ \E out \in {Dispatch(name, args, store, now, issued + 1, e, x)} :
                 /\ store' = out.file
                 /\ issued' = Issued(out.events)
                 /\ call' = Call("invoke", name,
                                 IF name \in Tools THEN ToolScopes(name) ELSE {},
                                 args, store, out.file, now, out.events,
                                 Result(out.kind, out.creds), 0, out.hint)
            /\ UNCHANGED <<now, sheet, running, trace, services>>

NextDispatch == Invoke

SpecDispatch == Init /\ [][NextDispatch]_vars

(***************************************************************************)
(* extract_email_body (gmail_tools.py lines 86-104).  A payload is a MIME  *)
(* part [mimeType, data, parts]: data is the decoded body.data ("" when    *)
(* the body has no 'data' key), parts the sub-parts (<<>> when the part    *)
(* has no 'parts' key).                                                    *)
(***************************************************************************)
Part(mime, data, parts) == [mimeType |-> mime, data |-> data, parts |-> parts]

\* lines 91-98: the loop over payload['parts'], from part i on, with the
\* body found so far.  Only the parts of the payload itself are looked at;
\* a part's own 'parts' are never read.
RECURSIVE ScanParts(_, _, _)
ScanParts(parts, i, body) ==
    IF i > Len(parts) THEN body
    ELSE LET part == parts[i]
         IN  IF part.mimeType = "text/plain"
             THEN IF part.data # "" THEN part.data      \* body = ...; break
                  ELSE ScanParts(parts, i + 1, body)
             ELSE IF part.mimeType = "text/html" /\ body = ""
             THEN ScanParts(parts, i + 1, IF part.data # "" THEN part.data ELSE body)
             ELSE ScanParts(parts, i + 1, body)

ExtractEmailBody(payload) ==
    IF payload.parts # <<>>
    THEN ScanParts(payload.parts, 1, "")
    ELSE IF payload.mimeType \in {"text/plain", "text/html"} /\ payload.data # ""
    THEN payload.data
    ELSE ""

\* The payloads offered: every tree of at most MaxParts parts whose inner
\* nodes are multipart containers and whose leaves are a plain text, another
\* plain text, an HTML text or an attachment.
LeafParts ==
    {Part("text/plain", "plain-1", <<>>), Part("text/plain", "plain-2", <<>>),
     Part("text/html", "html-1", <<>>), Part("application/pdf", "pdf-1", <<>>)}

RECURSIVE TreesOf(_), ForestsOf(_)
TreesOf(n) ==
    IF n = 1 THEN LeafParts
    ELSE {Part("multipart", "", f) : f \in ForestsOf(n - 1)}

ForestsOf(n) ==
    IF n = 0 THEN {<<>>}
    ELSE UNION {{<<t>> \o f : t \in TreesOf(k), f \in ForestsOf(n - k)} : k \in 1..n}

Payloads == UNION {TreesOf(n) : n \in 1..MaxParts}

\* a message arrives; ReadGmailTool._run (format "full") extracts its body
InitBody ==
    /\ store = NoFile("missing")
    /\ now = 0
    /\ issued = 0
    /\ call \in {[op |-> "message", payload |-> p, body |-> ""] : p \in Payloads}
    /\ Idle

ExtractBody ==
    /\ call.op = "message"
    /\ call' = [op |-> "extract_email_body", payload |-> call.payload,
                body |-> ExtractEmailBody(call.payload)]
    /\ UNCHANGED <<store, now, issued, sheet, running, trace, services>>

NextBody == ExtractBody

SpecBody == InitBody /\ [][NextBody]_vars

(***************************************************************************)
(* AddRowGoogleSheetTool._run (gsheets_tools.py lines 256-297), step by    *)
(* step, for two callers appending to the same sheet.  The sheet is the    *)
(* sequence of its populated rows.  Nothing in the tool holds a lock       *)
(* between its read and its write, so the steps of the two calls           *)
(* interleave freely.                                                      *)
(***************************************************************************)
Callers == {"a", "b"}

\* the row a caller wants to add
RowOf(p) == <<"row", p>>

\* line 271: result.get('values', [])
ValuesGet(rows) == rows

NextRow_LastRow(current_values) == Len(current_values)

\* line 272
NextRow(current_values) == Len(current_values) + 1

\* lines 280-285: values.update at A{next_row} writes the row there, whatever
\* the sheet holds at that row by then
ValuesUpdate(rows, next_row, row) ==
    [i \in 1..(IF next_row > Len(rows) THEN next_row ELSE Len(rows)) |->
        IF i = next_row THEN row
        ELSE IF i <= Len(rows) THEN rows[i] ELSE <<>>]

Appending(pc, values, next_row, ret) ==
    [pc |-> pc, current_values |-> values, next_row |-> next_row, ret |-> ret]

InitAppend ==
    /\ store = NoFile("missing")
    /\ now = 0
    /\ issued = 0
    /\ call = [op |-> "add_row_google_sheet"]
    /\ sheet \in {[i \in 1..k |-> <<"old", i>>] : k \in 0..MaxRows}
    /\ running = [p \in Callers |-> Appending("service", <<>>, 0, "")]
    /\ trace = <<>>
    /\ services = NoServices

\* lines 259-263: get_sheets_service()
AppendGetService(p) ==
    /\ running[p].pc = "service"
    /\ \E handle \in BOOLEAN :
         running' = [running EXCEPT ![p] =
                        IF handle THEN [@ EXCEPT !.pc = "get"]
                        ELSE [@ EXCEPT !.pc = "done", !.ret = "not_authenticated"]]
    /\ trace' = Append(trace, <<p, "service">>)
    /\ UNCHANGED <<store, now, issued, call, sheet, services>>

\* lines 266-272: values.get, then next_row
AppendGet(p) ==
    /\ running[p].pc = "get"
    /\ \E result \in {"ok", "http", "other"} :
         running' = [running EXCEPT ![p] =
                        IF result = "ok"
                        THEN Appending("update", ValuesGet(sheet),
                                       NextRow(ValuesGet(sheet)), "")
                        ELSE [@ EXCEPT !.pc = "done", !.ret = Caught(result)]]
    /\ trace' = Append(trace, <<p, "get">>)
    /\ UNCHANGED <<store, now, issued, call, sheet, services>>

\* lines 275-289: values.update, then the success message
AppendUpdate(p) ==
    /\ running[p].pc = "update"
    /\ \E result \in {"ok", "http", "other"} :
         /\ sheet' = IF result = "ok"
                     THEN ValuesUpdate(sheet, running[p].next_row, RowOf(p))
                     ELSE sheet
         /\ running' = [running EXCEPT ![p] =
                           [@ EXCEPT !.pc = "done",
                                     !.ret = IF result = "ok" THEN "success"
                                             ELSE Caught(result)]]
    /\ trace' = Append(trace, <<p, "update">>)
    /\ UNCHANGED <<store, now, issued, call, services>>

NextAppend == \E p \in Callers : AppendGetService(p) \/ AppendGet(p) \/ AppendUpdate(p)

SpecAppend == InitAppend /\ [][NextAppend]_vars

(***************************************************************************)
(* get_stored_credentials (google_auth.py lines 26-65), step by step, for  *)
(* two callers loading at the same time.  Nothing holds a lock on          *)
(* token.json, so a caller's read, its refresh exchange, the open(..., 'w') *)
(* of save_credentials (which truncates the file) and the write that       *)
(* follows interleave freely with the other caller's.                      *)
(***************************************************************************)
\* the scopes each caller asks for (a mail tool and a sheet tool)
ScopesOf(p) == IF p = "a" THEN GMAIL_SCOPES ELSE SHEETS_SCOPES

Loading(pc, seen, at, creds, ret) ==
    [pc |-> pc, seen |-> seen, at |-> at, creds |-> creds, ret |-> ret]

Loaded(p, ret) == [running[p] EXCEPT !.pc = "done", !.ret = ret]

\* line 70: open(token_path, 'w') leaves an empty file
OpenForWrite(file) == NoFile("corrupt")

\* WriteJson leaving a file alone that holds a token issued later
WriteJson_KeepingNewer(file, creds) ==
    IF file.kind = "json" /\ file.token > creds.token THEN file ELSE ToJson(creds)

\* line 71: token_file.write(creds.to_json())
WriteJson(file, creds) == ToJson(creds)

InitRefresh ==
    /\ store \in InitFiles
    /\ now = 0
    /\ issued = 1
    /\ call = [op |-> "get_stored_credentials"]
    /\ sheet = <<>>
    /\ running = [p \in Callers |->
                     Loading("read", NoFile("missing"), 0, NoCreds, Result("", NoCreds))]
    /\ trace = <<>>
    /\ services = NoServices

\* lines 38-51: the file is looked for, read and parsed, and the credentials
\* tested
LoadRead(p) ==
    /\ running[p].pc = "read"
    /\ running' = [running EXCEPT ![p] =
          LET parsed == FromAuthorizedUserInfo(store, ScopesOf(p))
              seen   == [Loaded(p, Result("none", NoCreds)) EXCEPT !.seen = store, !.at = now]
          IN  IF store.kind # "json" \/ ~parsed.ok
              THEN seen
              ELSE IF Valid(parsed.creds, now)
              THEN [seen EXCEPT !.ret = Result("creds", parsed.creds),
                                !.creds = parsed.creds]
              ELSE IF ShouldRefresh(parsed.creds, now)
              THEN Loading("refresh", store, now, parsed.creds, Result("", NoCreds))
              ELSE seen]
    /\ trace' = Append(trace, <<p, "read">>)
    /\ UNCHANGED <<store, now, issued, call, sheet, services>>

\* line 53: creds.refresh(Request()); lines 57-59 when it raises
LoadRefresh(p) ==
    /\ running[p].pc = "refresh"
    /\ \E refreshOk \in BOOLEAN :
         /\ running' = [running EXCEPT ![p] =
               IF refreshOk
               THEN [@ EXCEPT !.pc = "open",
                              !.creds = Refreshed(@, now, issued + 1)]
               ELSE Loaded(p, Result("none", NoCreds))]
         /\ issued' = IF refreshOk THEN issued + 1 ELSE issued
    /\ trace' = Append(trace, <<p, "refresh">>)
    /\ UNCHANGED <<store, now, call, sheet, services>>

\* line 55 into line 70: save_credentials opens the file for writing
LoadOpen(p) ==
    /\ running[p].pc = "open"
    /\ \E openOk \in BOOLEAN :
         /\ running' = [running EXCEPT ![p] =
               IF openOk THEN [@ EXCEPT !.pc = "write"]
               ELSE Loaded(p, Result("none", NoCreds))]
         /\ store' = IF openOk THEN OpenForWrite(store) ELSE store
    /\ trace' = Append(trace, <<p, "open">>)
    /\ UNCHANGED <<now, issued, call, sheet, services>>

\* line 71 and line 56: the JSON is written and the credentials returned
LoadWrite(p) ==
    /\ running[p].pc = "write"
    /\ \E writeOk \in BOOLEAN :
         /\ running' = [running EXCEPT ![p] =
               IF writeOk THEN Loaded(p, Result("creds", running[p].creds))
               ELSE Loaded(p, Result("none", NoCreds))]
         /\ store' = IF writeOk THEN WriteJson(store, running[p].creds)
                     ELSE NoFile("corrupt")
         /\ trace' = Append(trace, <<p, IF writeOk THEN "write" ELSE "write_failed">>)
    /\ UNCHANGED <<now, issued, call, sheet, services>>

LoadStep == \E p \in Callers : LoadRead(p) \/ LoadRefresh(p) \/ LoadOpen(p) \/ LoadWrite(p)

NextRefresh == Tick \/ LoadStep

SpecRefresh == InitRefresh /\ [][NextRefresh]_vars

(***************************************************************************)
(* SearchGmailTool._run and ListGmailTool._run (gmail_tools.py lines       *)
(* 209-267 and 278-341) with their arguments and output.  The mailbox is   *)
(* the sequence of ids of the messages that match, in the order the        *)
(* provider lists them.  A request is the tool, its arguments, the mailbox *)
(* and what the outside does: whether there is a service handle and which  *)
(* external call fails, if any, and how.                                   *)
(***************************************************************************)
MailListingTools == {"search_gmail", "list_gmail"}

Queries == {"from:ann@example.com", "subject:meeting"}

\* one more message than a caller can ask for
MessageIds == 1..(MaxResults + 1)

Mailboxes ==
    UNION {{m \in [1..k -> MessageIds] : \A i, j \in 1..k : m[i] = m[j] => i = j} :
              k \in 0..(MaxResults + 1)}

\* users().messages().list(..., maxResults=max_results).execute() and
\* results.get('messages', []) (lines 219-226, 293-300): the provider returns
\* the first matches, maxResults of them at most
MessagesList(mailbox, max_results) ==
    SubSeq(mailbox, 1, IF Len(mailbox) < max_results THEN Len(mailbox) ELSE max_results)

ListCall(tool, query, max_results) ==
    [api |-> "gmail.messages.list", q |-> query, maxResults |-> max_results,
     labelIds |-> IF tool = "list_gmail" THEN <<"INBOX">> ELSE <<>>]

\* lines 234-238, 308-312
GetCall(id) == [api |-> "gmail.messages.get", id |-> id, format |-> "metadata"]

\* NoEmails with the list tool's wording for both tools
NoEmails_Unnamed(tool, query) ==
    [kind |-> "success", text |-> "No emails found in the specified criteria.",
     query |-> "", entries |-> <<>>]

\* lines 228-229 and 302-303
NoEmails(tool, query) ==
    IF tool = "search_gmail"
    THEN [kind |-> "success", text |-> "No emails found matching query: '{query}'",
          query |-> query, entries |-> <<>>]
    ELSE [kind |-> "success", text |-> "No emails found in the specified criteria.",
          query |-> "", entries |-> <<>>]

\* EmailList with the newest message last
RECURSIVE EmailList_Reversed(_)
EmailList_Reversed(messages) ==
    IF messages = <<>> THEN <<>>
    ELSE EmailList_Reversed(Tail(messages)) \o <<[id |-> Head(messages)]>>

\* lines 232-248 and 306-322: one entry per listed message, appended in turn
EmailList(messages) == [i \in 1..Len(messages) |-> [id |-> messages[i]]]

\* lines 251-258 and 325-332
Formatted(tool, query, email_list) ==
    IF tool = "search_gmail"
    THEN [kind |-> "success", text |-> "Found {n} emails matching '{query}':",
          query |-> query, entries |-> email_list]
    ELSE [kind |-> "success", text |-> "Recent {n} emails:",
          query |-> "", entries |-> email_list]

Failure(k) == [kind |-> k, text |-> "", query |-> "", entries |-> <<>>]

\* the external calls of a run on which nothing fails
MailPlan(tool, query, max_results, mailbox) ==
    <<ListCall(tool, query, max_results)>>
    \o [i \in 1..Len(MessagesList(mailbox, max_results)) |->
           GetCall(MessagesList(mailbox, max_results)[i])]

\* _run: [calls, out]
MailListingRun(tool, query, max_results, mailbox, handle, failAt, failKind) ==
    LET messages == MessagesList(mailbox, max_results)
        plan     == MailPlan(tool, query, max_results, mailbox)
    IN  IF ~handle
        THEN [calls |-> <<>>, out |-> Failure("not_authenticated")]
        ELSE IF failAt > 0
        THEN [calls |-> SubSeq(plan, 1, failAt), out |-> Failure(Caught(failKind))]
        ELSE IF messages = <<>>
        THEN [calls |-> plan, out |-> NoEmails(tool, query)]
        ELSE [calls |-> plan, out |-> Formatted(tool, query, EmailList(messages))]

MailRequests ==
    UNION {UNION {
        {[tool |-> t, query |-> q, max_results |-> k, mailbox |-> m,
          handle |-> FALSE, failAt |-> 0, failKind |-> "http"] :
            t \in MailListingTools, q \in Queries}
        \cup {[tool |-> t, query |-> q, max_results |-> k, mailbox |-> m,
               handle |-> TRUE, failAt |-> f, failKind |-> "http"] :
                 t \in MailListingTools, q \in Queries,
                 f \in 0..Len(MailPlan("search_gmail", "", k, m))}
        \cup {[tool |-> t, query |-> q, max_results |-> k, mailbox |-> m,
               handle |-> TRUE, failAt |-> f, failKind |-> "other"] :
                 t \in MailListingTools, q \in Queries,
                 f \in 1..Len(MailPlan("search_gmail", "", k, m))} :
        m \in Mailboxes} : k \in 1..MaxResults}

InitMail ==
    /\ store = NoFile("missing")
    /\ now = 0
    /\ issued = 0
    /\ call \in {[op |-> "request", req |-> r, calls |-> <<>>, out |-> Failure("")] :
                    r \in MailRequests}
    /\ Idle

ListMail ==
    /\ call.op = "request"
    /\ \E r \in {MailListingRun(call.req.tool, call.req.query, call.req.max_results,
                                call.req.mailbox, call.req.handle, call.req.failAt,
                                call.req.failKind)} :
         call' = [op |-> call.req.tool, req |-> call.req, calls |-> r.calls, out |-> r.out]
    /\ UNCHANGED <<store, now, issued, sheet, running, trace, services>>

NextMail == ListMail

SpecMail == InitMail /\ [][NextMail]_vars

(***************************************************************************)
(* CreateGoogleSheetTool._run (gsheets_tools.py lines 69-110) with its     *)
(* arguments and output.  headers is [given, list]: given is FALSE for     *)
(* None.  A request is the arguments and what the outside does; the        *)
(* result is the external calls made, the output and the spreadsheets the  *)
(* provider holds afterwards.                                              *)
(***************************************************************************)
Titles == {"Budget", "Contacts"}

HeaderNames == {"Name", "Email"}

HeaderArgs ==
    {[given |-> FALSE, list |-> <<>>]}
    \cup UNION {{[given |-> TRUE, list |-> l] : l \in [1..k -> HeaderNames]} :
                   k \in 0..MaxHeaders}

\* HeadersGiven testing for None only
HeadersGiven_NotNone(headers) == headers.given

\* line 89: if headers
HeadersGiven(headers) == headers.given /\ headers.list # <<>>

\* the id the provider gives the new spreadsheet
NewSpreadsheetId == "spreadsheet-1"

\* lines 79-85
CreateCall(title) ==
    [api |-> "sheets.create", title |-> title, sheets |-> <<"Sheet1">>]

\* lines 94-99
HeaderCall(spreadsheet_id, headers) ==
    [api |-> "sheets.values.update", spreadsheetId |-> spreadsheet_id,
     range |-> "Sheet1!A1", values |-> <<headers.list>>]

Spreadsheet(id, title, rows) == [id |-> id, title |-> title, rows |-> rows]

Created(calls, out, spreadsheets) ==
    [calls |-> calls, out |-> out, spreadsheets |-> spreadsheets]

CreateOutput(k, id, title) == [kind |-> k, id |-> id, title |-> title]

\* HeaderWriteFailed deleting the spreadsheet it has just created
HeaderWriteFailed_RolledBack(title, headers, failKind) ==
    Created(<<CreateCall(title), HeaderCall(NewSpreadsheetId, headers),
              [api |-> "drive.files.delete", fileId |-> NewSpreadsheetId]>>,
            CreateOutput(Caught(failKind), "", ""), {})

\* lines 94-99 raising, into lines 103-110: the except clauses return their
\* message; the spreadsheet created at line 85 is left as it is
HeaderWriteFailed(title, headers, failKind) ==
    Created(<<CreateCall(title), HeaderCall(NewSpreadsheetId, headers)>>,
            CreateOutput(Caught(failKind), "", ""),
            {Spreadsheet(NewSpreadsheetId, title, <<>>)})

\* _run
CreateRun(title, headers, handle, failAt, failKind) ==
    IF ~handle
    THEN Created(<<>>, CreateOutput("not_authenticated", "", ""), {})
    ELSE IF failAt = 1
    THEN Created(<<CreateCall(title)>>, CreateOutput(Caught(failKind), "", ""), {})
    ELSE IF ~HeadersGiven(headers)
    THEN Created(<<CreateCall(title)>>,
                 CreateOutput("success", NewSpreadsheetId, title),
                 {Spreadsheet(NewSpreadsheetId, title, <<>>)})
    ELSE IF failAt = 2
    THEN HeaderWriteFailed(title, headers, failKind)
    ELSE Created(<<CreateCall(title), HeaderCall(NewSpreadsheetId, headers)>>,
                 CreateOutput("success", NewSpreadsheetId, title),
                 {Spreadsheet(NewSpreadsheetId, title, <<headers.list>>)})

CreateRequests ==
    UNION {
        {[title |-> t, headers |-> h, handle |-> FALSE, failAt |-> 0, failKind |-> "http"] :
            t \in Titles}
        \cup {[title |-> t, headers |-> h, handle |-> TRUE, failAt |-> 0,
               failKind |-> "http"] : t \in Titles}
        \cup {[title |-> t, headers |-> h, handle |-> TRUE, failAt |-> f, failKind |-> k] :
                 t \in Titles, k \in {"http", "other"},
                 f \in 1..(IF HeadersGiven(h) THEN 2 ELSE 1)} :
        h \in HeaderArgs}

InitCreate ==
    /\ store = NoFile("missing")
    /\ now = 0
    /\ issued = 0
    /\ call \in {[op |-> "request", req |-> r,
                  done |-> Created(<<>>, CreateOutput("", "", ""), {})] :
                    r \in CreateRequests}
    /\ Idle

CreateSheet ==
    /\ call.op = "request"
    /\ call' = [op |-> "create_google_sheet", req |-> call.req,
                done |-> CreateRun(call.req.title, call.req.headers, call.req.handle,
                                   call.req.failAt, call.req.failKind)]
    /\ UNCHANGED <<store, now, issued, sheet, running, trace, services>>

NextCreate == CreateSheet

SpecCreate == InitCreate /\ [][NextCreate]_vars

(***************************************************************************)
(* ReadGoogleSheetTool._run (gsheets_tools.py lines 122-186) with its      *)
(* arguments and output.  A cell is the sequence of the characters of      *)
(* str(cell); values is what values().get returns, rows of cells of        *)
(* unequal length.  The output is [kind, lines]: a rendered line is the    *)
(* sequence of its columns, which the code joins with " | ".               *)
(***************************************************************************)
Cells == {<<"a">>, <<"b", "c">>}

SheetRows == UNION {[1..k -> Cells] : k \in 0..MaxCols}

SheetValues == UNION {[1..k -> SheetRows] : k \in 0..(MaxRows + 1)}

\* the range argument, in A1 notation
Ranges == {"Sheet1!A1:C3"}

Longest(S) == IF S = {} THEN 0 ELSE CHOOSE m \in S : \A x \in S : x <= m

\* str.ljust
LJust(cell, width) ==
    [i \in 1..Longest({Len(cell), width}) |-> IF i <= Len(cell) THEN cell[i] ELSE " "]

\* range(n) at lines 160, 163 and 171.  The second parameter of _run is
\* named range (line 122), so within _run the name is the A1 string the
\* caller passed and not the builtin: calling it raises TypeError.
CallRange(range, n) ==
    IF range \in Ranges
    THEN [raised |-> TRUE, value |-> <<>>]
    ELSE [raised |-> FALSE, value |-> [i \in 1..n |-> i]]

\* lines 159-160
ColWidths(values, range) ==
    LET cols == CallRange(range, Longest({Len(values[r]) : r \in 1..Len(values)}))
    IN  [raised |-> cols.raised,
         value  |-> [i \in 1..Len(cols.value) |->
                        Longest({IF i <= Len(values[r]) THEN Len(values[r][i]) ELSE 0 :
                                    r \in 1..Len(values)})]]

\* lines 163-164 and 171-172: one row of the table
TableRow(row, col_widths, range) ==
    LET cols == CallRange(range, Len(col_widths))
    IN  [raised |-> cols.raised,
         value  |-> [i \in 1..Len(cols.value) |->
                        IF i <= Len(row) THEN LJust(row[i], col_widths[i])
                        ELSE LJust(<<>>, col_widths[i])]]

ReadOutput(k, lines) == [kind |-> k, lines |-> lines]

\* lines 154-176: the table, or all rows as they are
FormatValues(values, range, include_headers) ==
    IF include_headers /\ Len(values) > 1
    THEN LET widths == ColWidths(values, range)
         IN  IF widths.raised
             THEN ReadOutput(Caught("other"), <<>>)
             ELSE IF \E r \in 1..Len(values) :
                        TableRow(values[r], widths.value, range).raised
             THEN ReadOutput(Caught("other"), <<>>)
             ELSE ReadOutput("success",
                             [r \in 1..Len(values) |->
                                 TableRow(values[r], widths.value, range).value])
    ELSE ReadOutput("success", values)

\* _run: [calls, out]
ReadRun(values, range, include_headers, handle, failAt, failKind) ==
    IF ~handle
    THEN [calls |-> <<>>, out |-> ReadOutput("not_authenticated", <<>>)]
    ELSE IF failAt = 1
    THEN [calls |-> <<"sheets.values.get">>, out |-> ReadOutput(Caught(failKind), <<>>)]
    ELSE IF values = <<>>
    THEN [calls |-> <<"sheets.values.get">>, out |-> ReadOutput("no_data", <<>>)]
    ELSE IF failAt = 2
    THEN [calls |-> <<"sheets.values.get", "sheets.get">>,
          out |-> ReadOutput(Caught(failKind), <<>>)]
    ELSE [calls |-> <<"sheets.values.get", "sheets.get">>,
          out |-> FormatValues(values, range, include_headers)]

ReadRequests ==
    UNION {
        {[values |-> v, range |-> g, include_headers |-> TRUE, handle |-> FALSE,
          failAt |-> 0, failKind |-> "http"] : g \in Ranges}
        \cup {[values |-> v, range |-> g, include_headers |-> h, handle |-> TRUE,
               failAt |-> 0, failKind |-> "http"] : g \in Ranges, h \in BOOLEAN}
        \cup {[values |-> v, range |-> g, include_headers |-> TRUE, handle |-> TRUE,
               failAt |-> f, failKind |-> k] :
                 g \in Ranges, k \in {"http", "other"},
                 f \in 1..(IF v = <<>> THEN 1 ELSE 2)} :
        v \in SheetValues}

InitRead ==
    /\ store = NoFile("missing")
    /\ now = 0
    /\ issued = 0
    /\ call \in {[op |-> "request", req |-> r, calls |-> <<>>, out |-> ReadOutput("", <<>>)] :
                    r \in ReadRequests}
    /\ Idle

ReadSheet ==
    /\ call.op = "request"
    /\ \E r \in {ReadRun(call.req.values, call.req.range, call.req.include_headers,
                         call.req.handle, call.req.failAt, call.req.failKind)} :
         call' = [op |-> "read_google_sheet", req |-> call.req, calls |-> r.calls,
                  out |-> r.out]
    /\ UNCHANGED <<store, now, issued, sheet, running, trace, services>>

NextRead == ReadSheet

SpecRead == InitRead /\ [][NextRead]_vars

(***************************************************************************)
(* Properties.  Each is about the last call: call.pre is the token file    *)
(* it found, call.post the file it left, call.at the time, call.events     *)
(* what it did in program order, call.ret what it returned.                *)
(***************************************************************************)
Has(events, e) == \E i \in 1..Len(events) : events[i] = e

Count(events, S) == Cardinality({i \in 1..Len(events) : events[i] \in S})

RefreshEvents == {"refresh_ok", "refresh_failed"}

WriteEvents == {"write_ok", "write_failed"}

\* the call found the JSON of a bundle
PreBundle == call.pre.kind = "json"

\* the access token of the bundle the call found had expired
PreExpired == call.at >= call.pre.expiry

\* the token material of a bundle on file
Material(file) ==
    [token |-> file.token, refresh_token |-> file.refresh_token, expiry |-> file.expiry]

\* C1: scope coverage.  get_stored_credentials returns None whenever the
\* requested scopes are not a subset of the scopes stored in the bundle,
\* also when the access token has not expired.
C1_ScopeCoverage ==
    (call.op = "load" /\ PreBundle /\ ~(call.scopes \subseteq call.pre.scopes))
        => call.ret.kind = "none"

\* C2: a load that finds an expired access token and a refresh token makes
\* exactly one refresh exchange; when the exchange succeeds it writes the
\* refreshed bundle to the token file, and only then returns that bundle:
\* whatever it returns is the refreshed bundle and is what the file holds.
C2_RefreshOnceThenPersist ==
    (call.op = "load" /\ PreBundle /\ PreExpired /\ call.pre.refresh_token # 0)
        => /\ Count(call.events, RefreshEvents) = 1
           /\ Has(call.events, "refresh_ok") =>
                 /\ Count(call.events, WriteEvents) = 1
                 /\ call.events[Len(call.events)] \in WriteEvents
                 /\ Has(call.events, "write_ok") =>
                       /\ call.ret.kind = "creds"
                       /\ call.ret.creds.token # call.pre.token
                       /\ call.ret.creds.expiry > call.at
           /\ call.ret.kind = "creds" =>
                 /\ Has(call.events, "write_ok")
                 /\ call.post = ToJson(call.ret.creds)

C2_Witness ==
    /\ call.op = "load" /\ PreBundle /\ PreExpired /\ call.pre.refresh_token # 0
    /\ call.ret.kind = "creds"
    /\ call.events = <<"read", "refresh_ok", "write_ok">>

\* C3: a load that finds a bundle whose access token has not expired
\* returns that bundle unchanged (same access token, refresh token and
\* expiry), makes no refresh exchange and leaves the token file as it was.
C3_UnexpiredReturnedUnchanged ==
    (call.op = "load" /\ PreBundle /\ ~PreExpired)
        => /\ call.ret.kind = "creds"
           /\ [token |-> call.ret.creds.token,
               refresh_token |-> call.ret.creds.refresh_token,
               expiry |-> call.ret.creds.expiry] = Material(call.pre)
           /\ Count(call.events, RefreshEvents) = 0
           /\ call.post = call.pre

\* C4: a load that finds an expired access token and no refresh token
\* returns None and makes no refresh exchange.
C4_ExpiredWithoutRefreshToken ==
    (call.op = "load" /\ PreBundle /\ PreExpired /\ call.pre.refresh_token = 0)
        => /\ call.ret.kind = "none"
           /\ Count(call.events, RefreshEvents) = 0

C4_Witness ==
    /\ call.op = "load" /\ PreBundle /\ PreExpired
    /\ call.pre.has_refresh_key /\ call.pre.refresh_token = 0
    /\ call.ret.kind = "none"

\* C5: when the refresh exchange fails, get_stored_credentials returns None
\* and raises nothing; is_authenticated then answers False and a tool (via
\* authenticate_google_api) answers that the user is not authenticated.
C5_RefreshFailureAbsorbed ==
    Has(call.events, "refresh_failed")
        => /\ call.op = "load" => call.ret.kind = "none"
           /\ call.op = "is_authenticated" => call.ret.kind = "false"
           /\ call.op = "tool" => call.ret.kind = "not_authenticated"

C5_Witness ==
    /\ Has(call.events, "refresh_failed")
    /\ call.op = "is_authenticated"
    /\ call.ret.kind = "false"

\* C6: a failure to read the token file (no file, open or read raising,
\* content that is not a bundle) or to write it during a refresh makes the
\* load return None; no exception leaves get_stored_credentials,
\* is_authenticated or a tool's credential resolution.
IoFailure ==
    \/ call.pre.kind \in {"missing", "unreadable", "corrupt"}
    \/ Has(call.events, "write_failed")

C6_IoFailureIsNoCredentials ==
    call.op \in {"load", "is_authenticated", "tool"}
        => /\ call.ret.kind # "raised"
           /\ IoFailure =>
                 /\ call.op = "load" => call.ret.kind = "none"
                 /\ call.op = "is_authenticated" => call.ret.kind = "false"
                 /\ call.op = "tool" => call.ret.kind = "not_authenticated"

C6_Witness ==
    /\ call.op = "load"
    /\ call.pre.kind = "corrupt"
    /\ call.events = <<"read_failed">>
    /\ call.ret.kind = "none"

C8_FailedExchangeWritesNothing ==
    (call.op = "callback" /\ call.arg \in {"invalid_grant", "redirect_uri_mismatch"})
        => /\ call.ret.kind = "error_page"
           /\ call.events = <<"exchange_failed">>
           /\ call.post = call.pre

C8_Witness ==
    /\ call.op = "callback" /\ call.arg = "redirect_uri_mismatch"
    /\ PreBundle
    /\ call.ret.kind = "error_page"

\* C9: a callback without a code is answered with HTTP status 400, makes no
\* token exchange and writes nothing.
C9_MissingCodeIs400 ==
    (call.op = "callback" /\ call.arg = "no_code")
        => /\ call.status = 400
           /\ call.events = <<>>
           /\ call.post = call.pre

\* C10: when credential resolution yields None, every tool returns the
\* not-authenticated message with the /oauth/login hint as a value, raises
\* nothing and makes no external API call.
C10_NoCredentialsNoApiCall ==
    (call.op = "tool" /\ call.ret.creds = NoCreds)
        => /\ call.ret.kind = "not_authenticated"
           /\ call.hint = AuthHint
           /\ ApiCalls(call.events) = <<>>

C10_Witness ==
    /\ call.op = "tool" /\ call.tool = "add_row_google_sheet"
    /\ call.ret.creds = NoCreds
    /\ call.ret.kind = "not_authenticated"

\* C11: a tool invocation always returns and never raises: whichever
\* external call fails, an HttpError ends in the API-error message and any
\* other exception in the unexpected-error message, two different outcomes,
\* both returned as values.
C11_ToolAlwaysReturns ==
    call.op = "tool"
        => /\ call.ret.kind \in {"not_authenticated", "success", "api_error",
                               "unexpected_error"}
           /\ call.arg = "http"  => call.ret.kind = "api_error"
           /\ call.arg = "other" => call.ret.kind = "unexpected_error"
           /\ call.arg = "" => call.ret.kind \in {"not_authenticated", "success"}

C11_Witness ==
    /\ call.op = "tool" /\ call.tool = "read_google_sheet"
    /\ call.arg = "other"
    /\ ApiCalls(call.events) = <<"sheets.values.get", "sheets.get">>
    /\ call.ret.kind = "unexpected_error"

\* C12: the dispatcher is total on malformed arguments: for every
\* registered tool and every argument set with a required field missing or
\* a value of a type that cannot be coerced, invoke returns InvalidArguments,
\* raises nothing, resolves no credentials and makes no external call.
Malformed(tool, args) ==
    \/ \E f \in Fields(tool) : args[f] = "bad"
    \/ \E f \in RequiredFields(tool) : args[f] = "absent"

RECURSIVE LeavesOf(_), LeavesOfAll(_, _)
LeavesOf(part) ==
    IF part.parts = <<>> THEN <<part>> ELSE LeavesOfAll(part.parts, 1)

LeavesOfAll(parts, i) ==
    IF i > Len(parts) THEN <<>>
    ELSE LeavesOf(parts[i]) \o LeavesOfAll(parts, i + 1)

IsPlain(part) == part.mimeType = "text/plain"

IsHtml(part) == part.mimeType = "text/html"

DepthFirstBody(payload) ==
    LET plain == SelectSeq(LeavesOf(payload), IsPlain)
        html  == SelectSeq(LeavesOf(payload), IsHtml)
    IN  IF plain # <<>> THEN plain[1].data
        ELSE IF html # <<>> THEN html[1].data
        ELSE ""

C13_DepthFirstPlainThenHtml ==
    call.op = "extract_email_body" => call.body = DepthFirstBody(call.payload)

\* position of a step in the trace, 0 when it has not happened
At(p, step) ==
    IF \E i \in 1..Len(trace) : trace[i] = <<p, step>>
    THEN CHOOSE i \in 1..Len(trace) : trace[i] = <<p, step>>
    ELSE 0

Appended(p) == p \in DOMAIN running /\ running[p].ret = "success"

\* both appends read the sheet before either wrote it, and both wrote it
StaleAppends(p, q) ==
    /\ p # q /\ Appended(p) /\ Appended(q)
    /\ At(p, "get") < At(q, "update") /\ At(q, "get") < At(p, "update")
    /\ At(p, "update") < At(q, "update")

\* C14: add_row_google_sheet targets row k+1, k being the number of rows its
\* own read returned, and writes its row there; two appends that both read
\* before either writes target the same row, and after both the sheet
\* holds at that row the row written last and not the other one.
C14_AppendTargetsNextRow ==
    \A p \in DOMAIN running :
        /\ running[p].pc = "update" \/ Appended(p)
               => running[p].next_row = Len(running[p].current_values) + 1
        /\ \A q \in DOMAIN running :
               StaleAppends(p, q)
                   => /\ running[p].next_row = running[q].next_row
                      /\ sheet[running[q].next_row] = RowOf(q)
                      /\ \A i \in 1..Len(sheet) : sheet[i] # RowOf(p)
                      /\ Len(sheet) = Len(running[p].current_values) + 1
                      /\ \A i \in 1..Len(running[p].current_values) :
                             sheet[i] = running[p].current_values[i]

C14_Witness ==
    /\ DOMAIN running = Callers
    /\ StaleAppends("a", "b")
    /\ Len(running["a"].current_values) = 1
    /\ sheet = <<<<"old", 1>>, RowOf("b")>>

\* both callers read the same bundle, with a refresh token and expired
\* when they read it
SawSameExpired(p, q) ==
    /\ p # q
    /\ running[p].pc # "read" /\ running[q].pc # "read"
    /\ running[p].seen = running[q].seen
    /\ running[p].seen.kind = "json"
    /\ running[p].seen.has_refresh_key /\ running[p].seen.refresh_token # 0
    /\ Expired(running[p].seen, running[p].at)
    /\ Expired(running[q].seen, running[q].at)

LoadOnPre(e) ==
    GetStoredCredentials(call.pre, call.scopes, call.at,
                         IF call.post.kind = "json" THEN call.post.token ELSE 0,
                         e.refreshOk, e.w)

\* that load makes the external calls the last call made and leaves the
\* file as the last call left it
SameLoad(e) == LoadOnPre(e).events = call.events /\ LoadOnPre(e).file = call.post

\* C16: is_authenticated(scopes) is true exactly when get_stored_credentials
\* with the same scopes (ALL_SCOPES when none are given) returns
\* credentials, on every state of the token file; it changes the file only
\* by the refresh and save of that load, so not at all when the bundle is
\* unexpired, missing or unusable.
C16_AuthenticatedIffLoadReturnsBundle ==
    call.op = "is_authenticated"
        => /\ call.arg = "None" => call.scopes = ALL_SCOPES
           /\ call.ret.kind \in {"true", "false"}
           /\ \E e \in Worlds : SameLoad(e)
           /\ \A e \in Worlds :
                 SameLoad(e) => (call.ret.kind = "true" <=> LoadOnPre(e).ret.kind = "creds")
           /\ call.post # call.pre
                 => /\ PreBundle /\ PreExpired /\ call.pre.has_refresh_key
                    /\ Has(call.events, "refresh_ok")
                    /\ Count(call.events, WriteEvents) = 1

C16_Witness ==
    /\ call.op = "is_authenticated" /\ call.arg = "None"
    /\ PreBundle /\ PreExpired
    /\ call.events = <<"read", "refresh_ok", "write_ok">>
    /\ call.ret.kind = "true"
    /\ call.post # call.pre

AgentEvents == {"agent_created", "agent_run"}

IsAgentEvent(e) == e \in AgentEvents

IsLoadEvent(e) == e \notin AgentEvents

\* the load made by the authentication check of the last request: its
\* external calls are those the request made before any agent event
CheckLoad(e) ==
    /\ LoadOnPre(e).events = SelectSeq(call.events, IsLoadEvent)
    /\ LoadOnPre(e).file = call.post

\* C17: POST /agent, when is_authenticated() is false, returns requires_auth
\* with the auth_url as a normal response (status 200) and neither
\* constructs nor runs the agent; the agent is constructed and run only
\* after the check of the same request has passed.
C17_AgentOnlyWhenAuthenticated ==
    call.op = "agent"
        => /\ \E e \in Worlds : CheckLoad(e)
           /\ \A e \in Worlds :
                 CheckLoad(e)
                    => IF LoadOnPre(e).ret.kind = "creds"
                       THEN /\ call.ret.kind \in {"response", "completed", "http_error"}
                            /\ Has(call.events, "agent_created")
                            /\ call.events = SelectSeq(call.events, IsLoadEvent)
                                                \o SelectSeq(call.events, IsAgentEvent)
                       ELSE /\ call.ret.kind = "requires_auth"
                            /\ call.status = 200
                            /\ call.hint = AuthUrl
                            /\ SelectSeq(call.events, IsAgentEvent) = <<>>
           /\ Has(call.events, "agent_run")
                 => Count(call.events, {"agent_created"}) = 1

C17_Witness ==
    /\ call.op = "agent"
    /\ PreBundle /\ PreExpired /\ call.pre.has_refresh_key
    /\ call.events = <<"read", "refresh_failed">>
    /\ call.ret.kind = "requires_auth"

\* C18: search_gmail with a query that matches no message returns the
\* zero-results message naming the query: not an error, not an empty
\* output, and after the list call no message is fetched.
C18_SearchNoMatchNamesQuery ==
    (/\ call.op = "search_gmail" /\ call.req.handle /\ call.req.failAt = 0
     /\ call.req.mailbox = <<>>)
        => /\ call.out.kind = "success"
           /\ call.out.text = "No emails found matching query: '{query}'"
           /\ call.out.query = call.req.query
           /\ call.calls = <<ListCall("search_gmail", call.req.query,
                                       call.req.max_results)>>

C18_Witness ==
    /\ call.op = "search_gmail" /\ call.req.handle /\ call.req.failAt = 0
    /\ call.req.mailbox = <<>> /\ call.req.query = "subject:meeting"
    /\ call.out.query = "subject:meeting"
    /\ Len(call.calls) = 1

\* C19: create_google_sheet makes the create call first; it writes the
\* header row, at Sheet1!A1 of the new spreadsheet, only after the create
\* call succeeded and only when a non-empty header list was given.  With no
\* headers it makes exactly one external call, and when the create call
\* fails it attempts no header write.
C19_HeaderWriteOnlyAfterCreate ==
    (call.op = "create_google_sheet" /\ call.req.handle)
        => LET calls == call.done.calls
               given == call.req.headers.given /\ Len(call.req.headers.list) > 0
           IN  /\ Len(calls) \in {1, 2}
               /\ calls[1] = CreateCall(call.req.title)
               /\ Len(calls) = 2
                     <=> given /\ call.req.failAt # 1
               /\ Len(calls) = 2
                     => /\ calls[2].api = "sheets.values.update"
                        /\ calls[2].range = "Sheet1!A1"
                        /\ calls[2].spreadsheetId = NewSpreadsheetId
                        /\ calls[2].values = <<call.req.headers.list>>
               /\ call.req.failAt = 1 => calls = <<CreateCall(call.req.title)>>

C19_Witness ==
    /\ call.op = "create_google_sheet" /\ call.req.handle /\ call.req.failAt = 0
    /\ call.req.headers.list = <<"Name", "Email">>
    /\ Len(call.done.calls) = 2
    /\ call.done.out.kind = "success"

\* the ids of a sequence of calls or entries
Ids(seq) == [i \in 1..Len(seq) |-> seq[i].id]

\* C20: search_gmail and list_gmail make one list call and then one
\* metadata get per listed id, in list order and nothing else (N+1 calls);
\* the entries of the output are the listed ids in the provider's order,
\* max_results of them at most.
C20_OneFetchPerListedIdInOrder ==
    (call.op \in MailListingTools /\ call.req.handle)
        => LET listed == MessagesList(call.req.mailbox, call.req.max_results)
               gets   == Tail(call.calls)
           IN  /\ Head(call.calls) = ListCall(call.op, call.req.query, call.req.max_results)
               /\ \A i \in 1..Len(gets) : gets[i] = GetCall(listed[i])
               /\ Len(gets) <= Len(listed)
               /\ call.req.failAt = 0
                     => /\ Len(call.calls) = Len(listed) + 1
                        /\ Ids(call.out.entries) = listed
                        /\ Ids(call.out.entries) = SubSeq(call.req.mailbox, 1, Len(listed))
                        /\ Len(call.out.entries) <= call.req.max_results

C20_Witness ==
    /\ call.op = "list_gmail" /\ call.req.handle /\ call.req.failAt = 0
    /\ call.req.max_results = 2
    /\ call.req.mailbox = <<3, 1, 2>>
    /\ Ids(call.out.entries) = <<3, 1>>
    /\ Len(call.calls) = 3

\* C21: read_google_sheet, when headers are asked for and more than one row
\* comes back, renders every row (the header too) with as many columns as
\* the longest row has; column i is as wide as the longest cell at index i
\* over all rows, and a cell a row lacks is rendered as that many blanks.
C21_TableColumnsPadded ==
    (/\ call.op = "read_google_sheet" /\ call.req.handle /\ call.req.failAt = 0
     /\ call.req.include_headers /\ Len(call.req.values) > 1)
        => LET values == call.req.values
               ncols  == Longest({Len(values[r]) : r \in 1..Len(values)})
               width(i) == Longest({IF i <= Len(values[r]) THEN Len(values[r][i]) ELSE 0 :
                                       r \in 1..Len(values)})
           IN  /\ call.out.kind = "success"
               /\ Len(call.out.lines) = Len(values)
               /\ \A r \in 1..Len(call.out.lines) :
                     /\ Len(call.out.lines[r]) = ncols
                     /\ \A i \in 1..ncols :
                           /\ Len(call.out.lines[r][i]) = width(i)
                           /\ \A j \in 1..width(i) :
                                 call.out.lines[r][i][j] =
                                    IF i <= Len(values[r]) /\ j <= Len(values[r][i])
                                    THEN values[r][i][j] ELSE " "

\* C22: once token.json holds a bundle, no load, is_authenticated, callback,
\* agent request or tool invocation leaves it without one; the file changes
\* only by being overwritten whole with the bundle of a refresh or of an
\* exchange that succeeded.
C22_BundleNeverDestroyed ==
    (call.op \in {"load", "is_authenticated", "callback", "agent", "tool"} /\ PreBundle)
        => /\ call.post.kind = "json"
           /\ call.post # call.pre
                 => /\ Has(call.events, "refresh_ok") \/ Has(call.events, "exchange_ok")
                    /\ Has(call.events, "write_ok")

\* C23: no credentials and no handle are kept from one call to the next.
\* The module-level gmail_service, sheets_service and drive_service are
\* never assigned a handle, and a tool that makes an external call has
\* read token.json in that invocation, before the call, and works with
\* the bundle the file holds then: the one an earlier exchange or refresh
\* left there, or the one its own refresh has just saved.
C23_NothingCachedAcrossCalls ==
    /\ services = NoServices
    /\ (call.op = "tool" /\ ApiCalls(call.events) # <<>>)
          => /\ call.events[1] = "read"
             /\ call.post.kind = "json"
             /\ [token |-> call.ret.creds.token,
                 refresh_token |-> call.ret.creds.refresh_token,
                 expiry |-> call.ret.creds.expiry] = Material(call.post)
             /\ Count(call.events, RefreshEvents) = 0 => call.post = call.pre

C23_Witness ==
    /\ call.op = "tool" /\ call.tool = "send_gmail"
    /\ ApiCalls(call.events) = <<"gmail.messages.send">>
    /\ call.pre.token = 2 /\ call.pre.scopes = ALL_SCOPES
    /\ Count(call.events, RefreshEvents) = 0
    /\ call.ret.creds.token = 2
    /\ services = NoServices

\* caller q had opened token.json for writing and had not yet finished its
\* write when step i of the trace was taken
Saving(q, i) ==
    /\ At(q, "open") > 0 /\ At(q, "open") < i
    /\ \/ running[q].pc = "write"
       \/ At(q, "write") > i
       \/ At(q, "write_failed") > i

\* C24: a load that reads token.json while another caller's save is under
\* way finds a complete bundle, the previous one or the new one, never an
\* empty or partly written file; it does not return None for lack of a
\* readable bundle.
C24_LoadSeesWholeBundle ==
    \A p, q \in DOMAIN running :
        (p # q /\ At(p, "read") > 0 /\ Saving(q, At(p, "read")))
            => /\ running[p].seen.kind = "json"
               /\ (running[p].pc = "done" /\ At(p, "refresh") = 0)
                     => running[p].ret.kind = "creds"

\* the bundle a token file holds
BundleOn(file) ==
    [token |-> file.token, refresh_token |-> file.refresh_token,
     expiry |-> file.expiry, scopes |-> file.scopes]

\* C25: with no other writer, whenever get_stored_credentials returns a
\* bundle, token.json holds that bundle at the return; a refreshed bundle is
\* returned only after its write succeeded, and a refresh whose write fails
\* ends in None.
C25_ReturnedBundleIsPersisted ==
    call.op = "load"
        => /\ call.ret.kind = "creds"
                 => /\ call.post.kind = "json"
                    /\ BundleOn(call.post) = call.ret.creds
                    /\ Has(call.events, "refresh_ok") => Has(call.events, "write_ok")
           /\ Has(call.events, "write_failed") => call.ret.kind = "none"

====
